---- MODULE Spec2Model ----
(***************************************************************************)
(* A model of the PNG chunk decoder: the byte cursor (Stream), the         *)
(* primitive readers of Png, the 21 chunk decoders of chunks.rs and the    *)
(* decode loop PngDecoder::get_all_chunks of main.rs.                      *)
(*                                                                         *)
(* Rust's Result is modelled by a record [st, png, val]: st = "Ok" with    *)
(* the value in val, st = "Err" with the error message in val (the `?`     *)
(* operator returns it to the caller), st = "Panic" for an abort (expect   *)
(* on an Err, arithmetic overflow in a build with overflow checks).  png   *)
(* is the Png struct after the call: [data, sequential_counter,            *)
(* chunk_list, signature_verified].  A String is modelled by its UTF-8     *)
(* bytes.  usize is taken to be 64 bits wide.                              *)
(***************************************************************************)
EXTENDS Integers, Sequences, FiniteSets, TLC

VARIABLES png_file, pc, chunk_length, chunk_type, error, last_read

vars == <<png_file, pc, chunk_length, chunk_type, error, last_read>>

\* ------------------------------------------------------------------ bounds
\* The largest number of bytes cut from the end of a generated buffer.
MaxCut == 5
\* SpecCursor: the longest buffer and the largest range asked of one read.
MaxBufLen == 4
MaxRange == 3

\* ------------------------------------------------------------- arithmetic
\* The model checker's integers end at 2^31 - 1.  The buffers of the model
\* keep every byte that is read as the first byte of a u32 below 128, so the
\* values read are exact; a subtraction that wraps yields 2^30 + a - b where
\* the code yields 2^32 + a - b.  Both are far larger than any buffer, which
\* is all the code compares a wrapped value with.
U32 == 1073741824

\* u32 subtraction a - b: a build with overflow checks aborts when it goes
\* below zero, a build without them wraps.
sub_u32(a, b, overflow_checks) ==
    IF a >= b THEN [st |-> "Ok", val |-> a - b]
    ELSE IF overflow_checks THEN [st |-> "Panic", val |-> "attempt to subtract with overflow"]
    ELSE [st |-> "Ok", val |-> (a - b) + U32]

\* ----------------------------------------------------------------- Result
Ok(png, v) == [st |-> "Ok", png |-> png, val |-> v]
Err(png, e) == [st |-> "Err", png |-> png, val |-> e]
Panic(png, e) == [st |-> "Panic", png |-> png, val |-> e]

\* r? followed by the rest of the function: F is applied to an Ok result,
\* anything else is returned to the caller as it is.  (r is bound by a set
\* constructor so that it is evaluated once, however often F uses it.)
Try(r, F(_)) ==
    CHOOSE y \in {IF x.st = "Ok" THEN F(x) ELSE x : x \in {r}} : TRUE

\* ----------------------------------------------------------------- Stream
\* usize::MAX.  The model checker's integers end at 2^31 - 1, which stands
\* for it: as on a 64-bit target, it is larger than every u32 of the model.
UsizeMax == 2147483647

\* Mutant: the counter is advanced before the bounds check.
read_bytes_sequential_advance_first(sequential_counter, byte_list, range) ==
    LET start == sequential_counter
        end == sequential_counter + range
    IN  IF range > UsizeMax - sequential_counter
        THEN [st |-> "Panic", sequential_counter |-> sequential_counter,
              bytes |-> "attempt to add with overflow"]
        ELSE IF Len(byte_list) >= end
        THEN [st |-> "Ok", sequential_counter |-> sequential_counter + range,
              bytes |-> SubSeq(byte_list, start + 1, end)]
        ELSE [st |-> "Err", sequential_counter |-> sequential_counter + range,
              bytes |-> "Range is out of bounds"]

\* sequential_counter + range overflows usize when range is within
\* sequential_counter of usize::MAX.  A build with overflow checks aborts at
\* the addition; a build without them wraps end below start, passes the
\* bounds check and aborts at the slice byte_list[start..end].  Either way
\* the process aborts and no state of the Stream is seen afterwards.
read_bytes_sequential(sequential_counter, byte_list, range) ==
    LET start == sequential_counter
        end == sequential_counter + range
    IN  IF range > UsizeMax - sequential_counter
        THEN [st |-> "Panic", sequential_counter |-> sequential_counter,
              bytes |-> "attempt to add with overflow"]
        ELSE IF Len(byte_list) >= end
        THEN [st |-> "Ok", sequential_counter |-> sequential_counter + range,
              bytes |-> SubSeq(byte_list, start + 1, end)]
        ELSE [st |-> "Err", sequential_counter |-> sequential_counter,
              bytes |-> "Range is out of bounds"]

\* -------------------------------------------------------------------- Png
read_bytes(png, range) ==
    LET r == read_bytes_sequential(png.sequential_counter, png.data, range)
    IN  [st |-> r.st, png |-> [png EXCEPT !.sequential_counter = r.sequential_counter],
         val |-> r.bytes]

\* Mutant: the bytes taken in little-endian order.
big_endian_u32_little(png) ==
    Try(read_bytes(png, 4), LAMBDA r:
        IF Len(r.val) # 4 THEN Err(r.png, "Not enough bytes to read a u32")
        ELSE Ok(r.png, r.val[4] * 16777216 + r.val[3] * 65536 + r.val[2] * 256 + r.val[1]))

\* Mutant: the first byte is shifted by 16 bits, not 24.
big_endian_u32_short_shift(png) ==
    Try(read_bytes(png, 4), LAMBDA r:
        IF Len(r.val) # 4 THEN Err(r.png, "Not enough bytes to read a u32")
        ELSE Ok(r.png, r.val[1] * 65536 + r.val[2] * 65536 + r.val[3] * 256 + r.val[4]))

big_endian_u32(png) ==
    Try(read_bytes(png, 4), LAMBDA r:
        IF Len(r.val) # 4 THEN Err(r.png, "Not enough bytes to read a u32")
        ELSE Ok(r.png, r.val[1] * 16777216 + r.val[2] * 65536 + r.val[3] * 256 + r.val[4]))

\* Mutant: the two bytes taken in little-endian order.
big_endian_u16_little(png) ==
    Try(read_bytes(png, 2), LAMBDA r:
        IF Len(r.val) # 2 THEN Err(r.png, "Not enough bytes to read a u16")
        ELSE Ok(r.png, r.val[2] * 256 + r.val[1]))

big_endian_u16(png) ==
    Try(read_bytes(png, 2), LAMBDA r:
        IF Len(r.val) # 2 THEN Err(r.png, "Not enough bytes to read a u16")
        ELSE Ok(r.png, r.val[1] * 256 + r.val[2]))

get_u32(png) ==
    Try(read_bytes(png, 4), LAMBDA r:
        IF Len(r.val) = 0 THEN Err(r.png, "Not enough bytes to read a u32")
        ELSE Ok(r.png, r.val))

get_u16(png) ==
    Try(read_bytes(png, 2), LAMBDA r:
        IF Len(r.val) = 0 THEN Err(r.png, "Not enough bytes to read a u16")
        ELSE Ok(r.png, r.val))

get_u8(png) ==
    Try(read_bytes(png, 1), LAMBDA r:
        IF Len(r.val) = 0 THEN Err(r.png, "Not enough bytes to read a u8")
        ELSE Ok(r.png, r.val[1]))

\* String::from_utf8 accepts exactly the well-formed UTF-8 byte sequences.
RECURSIVE from_utf8_valid(_)
from_utf8_valid(b) ==
    LET n == Len(b)
        cont(i) == i <= n /\ b[i] >= 128 /\ b[i] <= 191
        in(i, lo, hi) == i <= n /\ b[i] >= lo /\ b[i] <= hi
        rest(k) == from_utf8_valid(SubSeq(b, k + 1, n))
    IN  IF n = 0 THEN TRUE
        ELSE IF b[1] <= 127 THEN rest(1)
        ELSE IF b[1] >= 194 /\ b[1] <= 223 THEN cont(2) /\ rest(2)
        ELSE IF b[1] = 224 THEN in(2, 160, 191) /\ cont(3) /\ rest(3)
        ELSE IF b[1] = 237 THEN in(2, 128, 159) /\ cont(3) /\ rest(3)
        ELSE IF b[1] >= 225 /\ b[1] <= 239 THEN cont(2) /\ cont(3) /\ rest(3)
        ELSE IF b[1] = 240 THEN in(2, 144, 191) /\ cont(3) /\ cont(4) /\ rest(4)
        ELSE IF b[1] >= 241 /\ b[1] <= 243 THEN cont(2) /\ cont(3) /\ cont(4) /\ rest(4)
        ELSE IF b[1] = 244 THEN in(2, 128, 143) /\ cont(3) /\ cont(4) /\ rest(4)
        ELSE FALSE

from_utf8(png, bytes) ==
    IF from_utf8_valid(bytes) THEN Ok(png, bytes)
    ELSE Err(png, "invalid utf-8 sequence")

get_string(png, len) ==
    Try(read_bytes(png, len), LAMBDA r: from_utf8(r.png, r.val))

\* The loop of read_null_terminated_string: bytes holds what was pushed so far.
RECURSIVE read_until_zero(_, _)
read_until_zero(png, bytes) ==
    Try(get_u8(png), LAMBDA r:
        IF r.val # 0 THEN read_until_zero(r.png, Append(bytes, r.val))
        ELSE Ok(r.png, bytes))

\* Mutant: the terminator is counted in the returned length.
read_null_terminated_string_counts_terminator(png) ==
    Try(read_until_zero(png, <<>>), LAMBDA r:
        Try(from_utf8(r.png, r.val), LAMBDA s:
            Ok(s.png, [string |-> s.val, length |-> Len(r.val) + 1])))

read_null_terminated_string(png) ==
    Try(read_until_zero(png, <<>>), LAMBDA r:
        Try(from_utf8(r.png, r.val), LAMBDA s:
            Ok(s.png, [string |-> s.val, length |-> Len(r.val)])))

\* Mutant: the record is inserted at the front of the list.
add_chunk_front(png, chunk) ==
    Ok([png EXCEPT !.chunk_list = <<chunk>> \o png.chunk_list], <<>>)

add_chunk(png, chunk) ==
    Ok([png EXCEPT !.chunk_list = Append(png.chunk_list, chunk)], <<>>)

png_signature == <<137, 80, 78, 71, 13, 10, 26, 10>>

\* Mutant: the flag is set whatever the first 8 bytes are.
Png_new_always_verified(file_data) ==
    LET r == read_bytes_sequential(0, file_data, 8)
    IN  IF r.st # "Ok"
        THEN Panic([data |-> file_data, sequential_counter |-> r.sequential_counter,
                    chunk_list |-> <<>>, signature_verified |-> FALSE],
                   "Failed to read bytes")
        ELSE Ok([data |-> file_data, sequential_counter |-> r.sequential_counter,
                 chunk_list |-> <<>>, signature_verified |-> TRUE], <<>>)

\* Mutant: a short file yields an unverified session at offset 0.
Png_new_lenient(file_data) ==
    LET r == read_bytes_sequential(0, file_data, 8)
    IN  Ok([data |-> file_data, sequential_counter |-> r.sequential_counter,
            chunk_list |-> <<>>,
            signature_verified |-> (r.st = "Ok" /\ r.bytes = png_signature)], <<>>)

\* Png::new on a loaded file: the Stream starts at 0, reads 8 bytes (expect
\* aborts when there are fewer) and compares them with the signature.
Png_new(file_data) ==
    LET r == read_bytes_sequential(0, file_data, 8)
    IN  IF r.st # "Ok"
        THEN Panic([data |-> file_data, sequential_counter |-> r.sequential_counter,
                    chunk_list |-> <<>>, signature_verified |-> FALSE],
                   "Failed to read bytes")
        ELSE Ok([data |-> file_data, sequential_counter |-> r.sequential_counter,
                 chunk_list |-> <<>>,
                 signature_verified |-> (r.bytes = png_signature)], <<>>)

\* ------------------------------------------------------------- chunks.rs
\* for _ in 0..n { data.push(png_file.get_u8()?) }
RECURSIVE push_u8s(_, _, _)
push_u8s(png, n, data) ==
    IF n = 0 THEN Ok(png, data)
    ELSE Try(get_u8(png), LAMBDA r: push_u8s(r.png, n - 1, Append(data, r.val)))

\* Mutant: the checksum is read before the data.
blob_new_checksum_first(length, png) ==
    Try(get_u32(png), LAMBDA CRC:
    Try(push_u8s(CRC.png, length, <<>>), LAMBDA data:
        Ok(data.png, [length |-> length, data |-> data.val, CRC |-> CRC.val])))

\* The decoders that push length bytes and then read the CRC: IDAT, dSIG,
\* eXIf, sBIT and tRNS have this one body.
blob_new(length, png) ==
    Try(push_u8s(png, length, <<>>), LAMBDA data:
    Try(get_u32(data.png), LAMBDA CRC:
        Ok(CRC.png, [length |-> length, data |-> data.val, CRC |-> CRC.val])))

ColorType(code) ==
    CASE code = 0 -> "Grayscale"
      [] code = 2 -> "RGB"
      [] code = 3 -> "Indexed"
      [] code = 4 -> "GrayscaleAlpha"
      [] code = 6 -> "RGBA"
      [] OTHER -> "Unknown color type"

InterlaceMethod(code) ==
    CASE code = 0 -> "None"
      [] code = 1 -> "Adam7"
      [] OTHER -> "Unknown interlace method"

\* Mutant: the filter-method byte is not read.
IDHRChunk_new_skips_filter(length, png) ==
    Try(big_endian_u32(png), LAMBDA width:
    Try(big_endian_u32(width.png), LAMBDA height:
    Try(get_u8(height.png), LAMBDA bit_depth:
    Try(get_u8(bit_depth.png), LAMBDA color_type:
        IF color_type.val \notin {0, 2, 3, 4, 6}
        THEN Err(color_type.png, "Unknown color type") ELSE
    Try(get_u8(color_type.png), LAMBDA compression_method:
    Try(get_u8(compression_method.png), LAMBDA interlace_method:
        IF interlace_method.val \notin {0, 1}
        THEN Err(interlace_method.png, "Unknown interlace method") ELSE
    Try(get_u32(interlace_method.png), LAMBDA CRC:
        Ok(CRC.png, [length |-> length, width |-> width.val, height |-> height.val,
                     bit_depth |-> bit_depth.val,
                     color_type |-> ColorType(color_type.val),
                     compression_method |-> compression_method.val,
                     filter_method |-> 0,
                     interlace_method |-> InterlaceMethod(interlace_method.val),
                     CRC |-> CRC.val]))))))))

\* Mutant: every interlace code other than 0 is taken for Adam7.
IDHRChunk_new_any_interlace(length, png) ==
    Try(big_endian_u32(png), LAMBDA width:
    Try(big_endian_u32(width.png), LAMBDA height:
    Try(get_u8(height.png), LAMBDA bit_depth:
    Try(get_u8(bit_depth.png), LAMBDA color_type:
        IF color_type.val \notin {0, 2, 3, 4, 6}
        THEN Err(color_type.png, "Unknown color type") ELSE
    Try(get_u8(color_type.png), LAMBDA compression_method:
    Try(get_u8(compression_method.png), LAMBDA filter_method:
    Try(get_u8(filter_method.png), LAMBDA interlace_method:
    Try(get_u32(interlace_method.png), LAMBDA CRC:
        Ok(CRC.png, [length |-> length, width |-> width.val, height |-> height.val,
                     bit_depth |-> bit_depth.val,
                     color_type |-> ColorType(color_type.val),
                     compression_method |-> compression_method.val,
                     filter_method |-> filter_method.val,
                     interlace_method |->
                         IF interlace_method.val = 0 THEN "None" ELSE "Adam7",
                     CRC |-> CRC.val])))))))))

IDHRChunk_new(length, png) ==
    Try(big_endian_u32(png), LAMBDA width:
    Try(big_endian_u32(width.png), LAMBDA height:
    Try(get_u8(height.png), LAMBDA bit_depth:
    Try(get_u8(bit_depth.png), LAMBDA color_type:
        IF color_type.val \notin {0, 2, 3, 4, 6}
        THEN Err(color_type.png, "Unknown color type") ELSE
    Try(get_u8(color_type.png), LAMBDA compression_method:
    Try(get_u8(compression_method.png), LAMBDA filter_method:
    Try(get_u8(filter_method.png), LAMBDA interlace_method:
        IF interlace_method.val \notin {0, 1}
        THEN Err(interlace_method.png, "Unknown interlace method") ELSE
    Try(get_u32(interlace_method.png), LAMBDA CRC:
        Ok(CRC.png, [length |-> length, width |-> width.val, height |-> height.val,
                     bit_depth |-> bit_depth.val,
                     color_type |-> ColorType(color_type.val),
                     compression_method |-> compression_method.val,
                     filter_method |-> filter_method.val,
                     interlace_method |-> InterlaceMethod(interlace_method.val),
                     CRC |-> CRC.val])))))))))

IENDChunk_new(length, png) ==
    Try(get_u32(png), LAMBDA CRC:
        Ok(CRC.png, [length |-> length, CRC |-> CRC.val]))

\* Mutant: the length is not checked, the entry count is its floor third.
PLTEChunk_new_unchecked(length, png) ==
    LET RECURSIVE entries_loop(_, _, _)
        entries_loop(p, n, entries) ==
            IF n = 0 THEN Ok(p, entries) ELSE
            Try(get_u8(p), LAMBDA red:
            Try(get_u8(red.png), LAMBDA green:
            Try(get_u8(green.png), LAMBDA blue:
                entries_loop(blue.png, n - 1,
                    Append(entries, [red |-> red.val, green |-> green.val,
                                     blue |-> blue.val])))))
    IN  Try(entries_loop(png, length \div 3, <<>>), LAMBDA entries:
        Try(get_u32(entries.png), LAMBDA CRC:
            Ok(CRC.png, [length |-> length, entries |-> entries.val, CRC |-> CRC.val])))

PLTEChunk_new(length, png) ==
    IF length % 3 # 0 THEN Err(png, "Invalid chunk length for PLTE") ELSE
    LET \* for _ in 0..(length / 3): three get_u8 and a push
        RECURSIVE entries_loop(_, _, _)
        entries_loop(p, n, entries) ==
            IF n = 0 THEN Ok(p, entries) ELSE
            Try(get_u8(p), LAMBDA red:
            Try(get_u8(red.png), LAMBDA green:
            Try(get_u8(green.png), LAMBDA blue:
                entries_loop(blue.png, n - 1,
                    Append(entries, [red |-> red.val, green |-> green.val,
                                     blue |-> blue.val]))))) 
    IN  Try(entries_loop(png, length \div 3, <<>>), LAMBDA entries:
        Try(get_u32(entries.png), LAMBDA CRC:
            Ok(CRC.png, [length |-> length, entries |-> entries.val, CRC |-> CRC.val])))

IDATChunk_new(length, png) == blob_new(length, png)

\* Mutant: a missing header is taken to be a grayscale one.
find_IDHR_or_default(chunk_list) ==
    LET found == {i \in 1..Len(chunk_list) : chunk_list[i].variant = "IDHR"}
    IN  IF found = {} THEN [some |-> TRUE, chunk |-> [color_type |-> "Grayscale"]]
        ELSE [some |-> TRUE,
              chunk |-> chunk_list[CHOOSE i \in found : \A j \in found : i <= j].chunk]

\* iter_mut().find_map: the first IDHR record of the chunk list, if any.
find_IDHR(chunk_list) ==
    LET found == {i \in 1..Len(chunk_list) : chunk_list[i].variant = "IDHR"}
    IN  IF found = {} THEN [some |-> FALSE]
        ELSE [some |-> TRUE,
              chunk |-> chunk_list[CHOOSE i \in found : \A j \in found : i <= j].chunk]

bKGDChunk_new(length, png) ==
    LET IDHR_chunk_opt == find_IDHR(png.chunk_list)
    IN  IF ~IDHR_chunk_opt.some THEN Err(png, "IDHR chunk not found") ELSE
        LET color_type == IDHR_chunk_opt.chunk.color_type
            color ==
                IF color_type \in {"Grayscale", "GrayscaleAlpha"}
                THEN Try(big_endian_u16(png), LAMBDA gray:
                         Ok(gray.png, [kind |-> "Gray", gray |-> gray.val]))
                ELSE IF color_type \in {"RGB", "RGBA"}
                THEN Try(big_endian_u16(png), LAMBDA red:
                     Try(big_endian_u16(red.png), LAMBDA green:
                     Try(big_endian_u16(green.png), LAMBDA blue:
                         Ok(blue.png, [kind |-> "RGB", red |-> red.val,
                                       green |-> green.val, blue |-> blue.val]))))
                ELSE Try(get_u8(png), LAMBDA palette_index:
                         Ok(palette_index.png, [kind |-> "PaletteIndex",
                                                palette_index |-> palette_index.val]))
        IN  Try(color, LAMBDA c:
            Try(get_u32(c.png), LAMBDA CRC:
                Ok(CRC.png, [length |-> length, color |-> c.val, CRC |-> CRC.val])))

gAMAChunk_new(length, png) ==
    Try(big_endian_u32(png), LAMBDA gamma:
    Try(get_u32(gamma.png), LAMBDA CRC:
        Ok(CRC.png, [length |-> length, gamma |-> gamma.val, CRC |-> CRC.val])))

cHRMChunk_new(length, png) ==
    Try(big_endian_u32(png), LAMBDA white_point_x:
    Try(big_endian_u32(white_point_x.png), LAMBDA white_point_y:
    Try(big_endian_u32(white_point_y.png), LAMBDA red_x:
    Try(big_endian_u32(red_x.png), LAMBDA red_y:
    Try(big_endian_u32(red_y.png), LAMBDA green_x:
    Try(big_endian_u32(green_x.png), LAMBDA green_y:
    Try(big_endian_u32(green_y.png), LAMBDA blue_x:
    Try(big_endian_u32(blue_x.png), LAMBDA blue_y:
    Try(get_u32(blue_y.png), LAMBDA CRC:
        Ok(CRC.png, [length |-> length,
                     white_point_x |-> white_point_x.val,
                     white_point_y |-> white_point_y.val,
                     red_x |-> red_x.val, red_y |-> red_y.val,
                     green_x |-> green_x.val, green_y |-> green_y.val,
                     blue_x |-> blue_x.val, blue_y |-> blue_y.val,
                     CRC |-> CRC.val]))))))))))

dSIGChunk_new(length, png) == blob_new(length, png)

eXIfChunk_new(length, png) == blob_new(length, png)

hISTChunk_new(length, png) ==
    LET \* for _ in 0..length/2 { data.push(png_file.big_endian_u16()?) }
        RECURSIVE data_loop(_, _, _)
        data_loop(p, n, data) ==
            IF n = 0 THEN Ok(p, data)
            ELSE Try(big_endian_u16(p), LAMBDA r:
                     data_loop(r.png, n - 1, Append(data, r.val)))
    IN  Try(data_loop(png, length \div 2, <<>>), LAMBDA data:
        Try(get_u32(data.png), LAMBDA CRC:
            Ok(CRC.png, [length |-> length, data |-> data.val, CRC |-> CRC.val])))

\* The result of a chain of u32 subtractions a - b1 - b2 - ..., left to right.
RECURSIVE sub_chain(_, _, _)
sub_chain(a, bs, overflow_checks) ==
    IF bs = <<>> THEN [st |-> "Ok", val |-> a]
    ELSE LET d == sub_u32(a, Head(bs), overflow_checks)
         IN  IF d.st # "Ok" THEN d ELSE sub_chain(d.val, Tail(bs), overflow_checks)

iCCPChunk_new(length, png, overflow_checks) ==
    Try(read_null_terminated_string(png), LAMBDA name:
    Try(get_u8(name.png), LAMBDA compression_method:
        LET n == sub_chain(length, <<name.val.length, 1>>, overflow_checks)
        IN  IF n.st # "Ok" THEN Panic(compression_method.png, n.val) ELSE
    Try(read_bytes(compression_method.png, n.val), LAMBDA compression_profile:
    Try(get_u32(compression_profile.png), LAMBDA CRC:
        Ok(CRC.png, [length |-> length, profile_name |-> name.val.string,
                     compression_method |-> compression_method.val,
                     compression_profile |-> compression_profile.val,
                     CRC |-> CRC.val])))))

iTXtChunk_new(length, png, overflow_checks) ==
    Try(read_null_terminated_string(png), LAMBDA keyword:
    Try(get_u8(keyword.png), LAMBDA compression_flag:
    Try(get_u8(compression_flag.png), LAMBDA compression_method:
    Try(read_null_terminated_string(compression_method.png), LAMBDA language_tag:
    Try(read_null_terminated_string(language_tag.png), LAMBDA translated_keyword:
        LET n == sub_chain(length, <<keyword.val.length, language_tag.val.length,
                                     translated_keyword.val.length, 2>>, overflow_checks)
        IN  IF n.st # "Ok" THEN Panic(translated_keyword.png, n.val) ELSE
    Try(push_u8s(translated_keyword.png, n.val, <<>>), LAMBDA text_bytes:
    Try(from_utf8(text_bytes.png, text_bytes.val), LAMBDA text:
    Try(get_u32(text.png), LAMBDA CRC:
        Ok(CRC.png, [length |-> length, keyword |-> keyword.val.string,
                     compression_flag |-> compression_flag.val,
                     compression_method |-> compression_method.val,
                     language_tag |-> language_tag.val.string,
                     translated_keyword |-> translated_keyword.val.string,
                     text |-> text.val, CRC |-> CRC.val])))))))))

pHYsChunk_new(length, png) ==
    Try(big_endian_u32(png), LAMBDA pixels_per_unit_x_axis:
    Try(big_endian_u32(pixels_per_unit_x_axis.png), LAMBDA pixels_per_unit_y_axis:
    Try(get_u8(pixels_per_unit_y_axis.png), LAMBDA unit_specifier:
    Try(get_u32(unit_specifier.png), LAMBDA CRC:
        Ok(CRC.png, [length |-> length,
                     pixels_per_unit_x_axis |-> pixels_per_unit_x_axis.val,
                     pixels_per_unit_y_axis |-> pixels_per_unit_y_axis.val,
                     unit_specifier |-> unit_specifier.val, CRC |-> CRC.val])))))

sBITChunk_new(length, png) == blob_new(length, png)

\* One channel of an sPLT entry: a byte widened to u16 at sample depth 8,
\* a big-endian u16 otherwise.
sPLT_channel(png, sample_depth) ==
    IF sample_depth = 8 THEN get_u8(png) ELSE big_endian_u16(png)

sPLTChunk_new(length, png, overflow_checks) ==
    Try(read_null_terminated_string(png), LAMBDA name:
    Try(get_u8(name.png), LAMBDA sample_depth:
        LET entry_length == IF sample_depth.val = 8 THEN 6 ELSE 10
            n == sub_chain(length, <<name.val.length, 2>>, overflow_checks)
            RECURSIVE entries_loop(_, _, _)
            entries_loop(p, k, entries) ==
                IF k = 0 THEN Ok(p, entries) ELSE
                Try(sPLT_channel(p, sample_depth.val), LAMBDA red:
                Try(sPLT_channel(red.png, sample_depth.val), LAMBDA green:
                Try(sPLT_channel(green.png, sample_depth.val), LAMBDA blue:
                Try(sPLT_channel(blue.png, sample_depth.val), LAMBDA alpha:
                Try(big_endian_u32(alpha.png), LAMBDA frequency:
                    entries_loop(frequency.png, k - 1,
                        Append(entries, [red |-> red.val, green |-> green.val,
                                         blue |-> blue.val, alpha |-> alpha.val,
                                         frequency |-> frequency.val])))))))
        IN  IF n.st # "Ok" THEN Panic(sample_depth.png, n.val) ELSE
    Try(entries_loop(sample_depth.png, n.val \div entry_length, <<>>), LAMBDA entries:
    Try(get_u32(entries.png), LAMBDA CRC:
        Ok(CRC.png, [length |-> length, palette_name |-> name.val.string,
                     sample_depth |-> sample_depth.val,
                     entries |-> entries.val, CRC |-> CRC.val])))))

RenderingIntent(code) ==
    CASE code = 0 -> "Perceptual"
      [] code = 1 -> "RelativeColorimetric"
      [] code = 2 -> "Saturation"
      [] code = 3 -> "AbsoluteColorimetric"
      [] OTHER -> "Invalid value for rendering intent"

sRGBChunk_new(length, png) ==
    Try(get_u8(png), LAMBDA rendering_intent:
        IF rendering_intent.val \notin {0, 1, 2, 3}
        THEN Err(rendering_intent.png, "Invalid value for rendering intent") ELSE
    Try(get_u32(rendering_intent.png), LAMBDA CRC:
        Ok(CRC.png, [length |-> length,
                     rendering_intent |-> RenderingIntent(rendering_intent.val),
                     CRC |-> CRC.val])))

sTERChunk_new(length, png) ==
    Try(get_u8(png), LAMBDA stereo_mode:
    Try(get_u32(stereo_mode.png), LAMBDA CRC:
        Ok(CRC.png, [length |-> length, stereo_mode |-> stereo_mode.val,
                     CRC |-> CRC.val])))

tEXtChunk_new(length, png, overflow_checks) ==
    Try(read_null_terminated_string(png), LAMBDA keyword:
        LET text_length == sub_chain(length, <<keyword.val.length, 1>>, overflow_checks)
        IN  IF text_length.st # "Ok" THEN Panic(keyword.png, text_length.val) ELSE
    Try(get_string(keyword.png, text_length.val), LAMBDA text:
    Try(get_u32(text.png), LAMBDA CRC:
        Ok(CRC.png, [length |-> length, keyword |-> keyword.val.string,
                     text |-> text.val, CRC |-> CRC.val]))))

tIMEChunk_new(length, png) ==
    Try(big_endian_u16(png), LAMBDA year:
    Try(get_u8(year.png), LAMBDA month:
    Try(get_u8(month.png), LAMBDA day:
    Try(get_u8(day.png), LAMBDA hour:
    Try(get_u8(hour.png), LAMBDA minute:
    Try(get_u8(minute.png), LAMBDA second:
    Try(get_u32(second.png), LAMBDA CRC:
        Ok(CRC.png, [length |-> length, year |-> year.val, month |-> month.val,
                     day |-> day.val, hour |-> hour.val, minute |-> minute.val,
                     second |-> second.val, CRC |-> CRC.val]))))))))

\* The body of the other blob decoders; the field is transparency_data.
tRNSChunk_new(length, png) ==
    Try(blob_new(length, png), LAMBDA blob:
        Ok(blob.png, [length |-> blob.val.length,
                      transparency_data |-> blob.val.data, CRC |-> blob.val.CRC]))

\* `byte as char` pushed on a String: the UTF-8 encoding of the code point
\* U+0000..U+00FF, one byte below 128 and two bytes from 128 on.
push_char(keyword, c) ==
    IF c < 128 THEN Append(keyword, c)
    ELSE keyword \o <<192 + (c \div 64), 128 + (c % 64)>>

\* The keyword loop of zTXtChunk::new.
RECURSIVE zTXt_keyword(_, _)
zTXt_keyword(png, keyword) ==
    Try(get_u8(png), LAMBDA c:
        IF c.val = 0 THEN Ok(c.png, keyword)
        ELSE zTXt_keyword(c.png, push_char(keyword, c.val)))

zTXtChunk_new(length, png, overflow_checks) ==
    Try(zTXt_keyword(png, <<>>), LAMBDA keyword:
    Try(get_u8(keyword.png), LAMBDA compression_method:
        LET n == sub_chain(length, <<Len(keyword.val), 2>>, overflow_checks)
        IN  IF n.st # "Ok" THEN Panic(compression_method.png, n.val) ELSE
    Try(push_u8s(compression_method.png, n.val, <<>>), LAMBDA compressed_text:
    Try(get_u32(compressed_text.png), LAMBDA CRC:
        Ok(CRC.png, [length |-> length, keyword |-> keyword.val,
                     compression_method |-> compression_method.val,
                     compressed_text |-> compressed_text.val, CRC |-> CRC.val])))))

\* ---------------------------------------------------------------- main.rs
\* Mutant: a tag is registered for which the dispatch has no arm.
chunk_type_map_extra ==
    (<<73, 72, 68, 82>> :> "IDHR") @@ (<<73, 68, 65, 84>> :> "IDAT") @@
    (<<80, 76, 84, 69>> :> "PLTE") @@ (<<98, 75, 71, 68>> :> "bKGD") @@
    (<<99, 72, 82, 77>> :> "cHRM") @@ (<<100, 83, 73, 71>> :> "dSIG") @@
    (<<101, 88, 73, 102>> :> "eXIf") @@ (<<103, 65, 77, 65>> :> "gAMA") @@
    (<<104, 73, 83, 84>> :> "hIST") @@ (<<105, 67, 67, 80>> :> "iCCP") @@
    (<<105, 84, 88, 116>> :> "iTXt") @@ (<<112, 72, 89, 115>> :> "pHYs") @@
    (<<115, 66, 73, 84>> :> "sBIT") @@ (<<115, 80, 76, 84>> :> "sPLT") @@
    (<<115, 82, 71, 66>> :> "sRGB") @@ (<<115, 84, 69, 82>> :> "sTER") @@
    (<<116, 69, 88, 116>> :> "tEXt") @@ (<<116, 73, 77, 69>> :> "tIME") @@
    (<<116, 82, 78, 83>> :> "tRNS") @@ (<<122, 84, 88, 116>> :> "zTXt") @@
    (<<73, 69, 78, 68>> :> "IEND") @@ (<<97, 98, 67, 68>> :> "abCD")

\* PngDecoder::new: the tag of every supported chunk type.
chunk_type_map ==
    (<<73, 72, 68, 82>> :> "IDHR") @@ (<<73, 68, 65, 84>> :> "IDAT") @@
    (<<80, 76, 84, 69>> :> "PLTE") @@ (<<98, 75, 71, 68>> :> "bKGD") @@
    (<<99, 72, 82, 77>> :> "cHRM") @@ (<<100, 83, 73, 71>> :> "dSIG") @@
    (<<101, 88, 73, 102>> :> "eXIf") @@ (<<103, 65, 77, 65>> :> "gAMA") @@
    (<<104, 73, 83, 84>> :> "hIST") @@ (<<105, 67, 67, 80>> :> "iCCP") @@
    (<<105, 84, 88, 116>> :> "iTXt") @@ (<<112, 72, 89, 115>> :> "pHYs") @@
    (<<115, 66, 73, 84>> :> "sBIT") @@ (<<115, 80, 76, 84>> :> "sPLT") @@
    (<<115, 82, 71, 66>> :> "sRGB") @@ (<<115, 84, 69, 82>> :> "sTER") @@
    (<<116, 69, 88, 116>> :> "tEXt") @@ (<<116, 73, 77, 69>> :> "tIME") @@
    (<<116, 82, 78, 83>> :> "tRNS") @@ (<<122, 84, 88, 116>> :> "zTXt") @@
    (<<73, 69, 78, 68>> :> "IEND")

\* Mutant: a tag that is not registered is decoded as an opaque blob.
read_chunk_header_tolerant(png) ==
    Try(big_endian_u32(png), LAMBDA len:
    Try(read_bytes(len.png, 4), LAMBDA key_bytes:
        IF key_bytes.val \notin DOMAIN chunk_type_map
        THEN Ok(key_bytes.png, [length |-> len.val, chunk_type |-> "IDAT"])
        ELSE Ok(key_bytes.png, [length |-> len.val,
                                chunk_type |-> chunk_type_map[key_bytes.val]])))

\* get_all_chunks, the head of one iteration: the length, the tag and the
\* lookup of the tag in chunk_type_map.
read_chunk_header(png) ==
    Try(big_endian_u32(png), LAMBDA len:
    Try(read_bytes(len.png, 4), LAMBDA key_bytes:
        IF key_bytes.val \notin DOMAIN chunk_type_map
        THEN Err(key_bytes.png, "Unexpected chunk type: None")
        ELSE Ok(key_bytes.png, [length |-> len.val,
                                chunk_type |-> chunk_type_map[key_bytes.val]])))

\* get_all_chunks, the match on chunk_type: the decoder's result wrapped in
\* its Chunk variant.
decode_chunk(type, length, png, overflow_checks) ==
    LET r == CASE type = "IDHR" -> IDHRChunk_new(length, png)
               [] type = "PLTE" -> PLTEChunk_new(length, png)
               [] type = "IDAT" -> IDATChunk_new(length, png)
               [] type = "tIME" -> tIMEChunk_new(length, png)
               [] type = "gAMA" -> gAMAChunk_new(length, png)
               [] type = "cHRM" -> cHRMChunk_new(length, png)
               [] type = "bKGD" -> bKGDChunk_new(length, png)
               [] type = "tEXt" -> tEXtChunk_new(length, png, overflow_checks)
               [] type = "dSIG" -> dSIGChunk_new(length, png)
               [] type = "eXIf" -> eXIfChunk_new(length, png)
               [] type = "hIST" -> hISTChunk_new(length, png)
               [] type = "iCCP" -> iCCPChunk_new(length, png, overflow_checks)
               [] type = "iTXt" -> iTXtChunk_new(length, png, overflow_checks)
               [] type = "pHYs" -> pHYsChunk_new(length, png)
               [] type = "sBIT" -> sBITChunk_new(length, png)
               [] type = "sPLT" -> sPLTChunk_new(length, png, overflow_checks)
               [] type = "sRGB" -> sRGBChunk_new(length, png)
               [] type = "sTER" -> sTERChunk_new(length, png)
               [] type = "tRNS" -> tRNSChunk_new(length, png)
               [] type = "zTXt" -> zTXtChunk_new(length, png, overflow_checks)
               [] type = "IEND" -> IENDChunk_new(length, png)
               [] OTHER -> Err(png, "Unexpected chunk type: " \o type)
    IN  Try(r, LAMBDA c: Ok(c.png, [variant |-> type, chunk |-> c.val]))

\* ------------------------------------------------------------ the buffers
\* The files the decoder is run on: a signature, then up to three records
\* in the wire layout (length, tag, payload, checksum), then the whole cut
\* short by up to MaxCut bytes.
U32BE(n) == <<n \div 16777216, (n \div 65536) % 256, (n \div 256) % 256, n % 256>>

Tag(name) == CHOOSE t \in DOMAIN chunk_type_map : chunk_type_map[t] = name

Checksum == <<42, 43, 44, 45>>

Record(tag, declared, payload) == U32BE(declared) \o tag \o payload \o Checksum

IHDRPayload(color, interlace) ==
    <<0, 0, 1, 2>> \o <<0, 0, 0, 3>> \o <<8, color, 0, 0, interlace>>

\* A suggested palette written out as the decoder's entry_length counts it:
\* the name, a zero, the sample depth, and per entry four channels of one
\* byte (depth 8) or two bytes and a frequency of two bytes.
U16BE(n) == <<n \div 256, n % 256>>

sPLT_entry_bytes(sample_depth, e) ==
    IF sample_depth = 8
    THEN <<e.red, e.green, e.blue, e.alpha>> \o U16BE(e.frequency)
    ELSE U16BE(e.red) \o U16BE(e.green) \o U16BE(e.blue) \o U16BE(e.alpha)
         \o U16BE(e.frequency)

RECURSIVE sPLT_entries_bytes(_, _)
sPLT_entries_bytes(sample_depth, entries) ==
    IF entries = <<>> THEN <<>>
    ELSE sPLT_entry_bytes(sample_depth, Head(entries))
         \o sPLT_entries_bytes(sample_depth, Tail(entries))

sPLT_payload(p) ==
    p.palette_name \o <<0, p.sample_depth>> \o sPLT_entries_bytes(p.sample_depth, p.entries)

PaletteEntries ==
    [d \in {8, 16} |->
        IF d = 8
        THEN <<[red |-> 10, green |-> 20, blue |-> 30, alpha |-> 40, frequency |-> 7],
               [red |-> 1, green |-> 2, blue |-> 3, alpha |-> 127, frequency |-> 300]>>
        ELSE <<[red |-> 266, green |-> 532, blue |-> 798, alpha |-> 1064, frequency |-> 7],
               [red |-> 1, green |-> 2, blue |-> 3, alpha |-> 32767, frequency |-> 300]>>]

Palettes ==
    {[palette_name |-> <<112>>, sample_depth |-> d,
      entries |-> SubSeq(PaletteEntries[d], 1, n)] : d \in {8, 16}, n \in 0..2}

Signatures == {png_signature, <<137, 80, 79, 71, 13, 10, 26, 10>>}

Heads ==
    {<<>>}
    \cup {Record(Tag("IDHR"), 13, IHDRPayload(c, 0)) : c \in {0, 2, 3, 4, 5, 6}}
    \cup {Record(Tag("IDHR"), 13, IHDRPayload(6, i)) : i \in {1, 2}}
    \cup {Record(Tag("IDHR"), 12, IHDRPayload(2, 0)),
          Record(Tag("IDHR"), 14, IHDRPayload(2, 0) \o <<9>>),
          Record(Tag("gAMA"), 4, <<0, 1, 134, 160>>)}

Middles ==
    {<<>>,
     Record(<<97, 98, 67, 68>>, 0, <<>>),
     Record(Tag("PLTE"), 6, <<1, 2, 3, 4, 5, 6>>),
     Record(Tag("PLTE"), 4, <<1, 2, 3, 4>>),
     Record(Tag("PLTE"), 0, <<>>),
     Record(Tag("IDAT"), 3, <<120, 1, 99>>),
     Record(Tag("IDAT"), 0, <<>>),
     Record(Tag("IDAT"), 16777216, <<1, 2>>),
     Record(Tag("tIME"), 7, <<7, 100, 12, 31, 23, 59, 60>>),
     Record(Tag("tIME"), 2, <<7, 100>>),
     Record(Tag("bKGD"), 2, <<1, 44>>),
     Record(Tag("bKGD"), 6, <<1, 0, 2, 0, 3, 0>>),
     Record(Tag("bKGD"), 1, <<5>>),
     Record(Tag("gAMA"), 4, <<0, 0, 1, 15>>),
     Record(Tag("gAMA"), 0, <<>>),
     Record(Tag("cHRM"), 32, <<0, 0, 122, 38, 0, 0, 1, 2, 0, 0, 25, 0,
                               0, 0, 12, 32, 0, 0, 117, 48, 0, 0, 23, 96,
                               0, 0, 58, 15, 0, 0, 23, 112>>),
     Record(Tag("dSIG"), 2, <<1, 2>>),
     Record(Tag("eXIf"), 1, <<77>>),
     Record(Tag("hIST"), 4, <<0, 1, 1, 0>>),
     Record(Tag("hIST"), 3, <<0, 1, 1>>),
     Record(Tag("iCCP"), 6, <<97, 98, 0, 0, 120, 1>>),
     Record(Tag("iCCP"), 1, <<97, 98, 0, 0, 120, 1>>),
     Record(Tag("iTXt"), 10, <<107, 0, 0, 0, 101, 0, 116, 0, 104, 105>>),
     Record(Tag("iTXt"), 2, <<107, 0, 0, 0, 101, 0, 116, 0, 104, 105>>),
     Record(Tag("pHYs"), 9, <<0, 0, 11, 19, 0, 0, 11, 19, 1>>),
     Record(Tag("pHYs"), 8, <<0, 0, 11, 19, 0, 0, 11, 19>>),
     Record(Tag("sBIT"), 3, <<8, 8, 8>>),
     Record(Tag("sPLT"), 9, <<112, 0, 8, 10, 20, 30, 40, 0, 7>>),
     Record(Tag("sPLT"), 13, <<112, 0, 16, 1, 10, 2, 20, 3, 30, 4, 40, 0, 7>>),
     Record(Tag("sPLT"), 11, <<112, 0, 8, 10, 20, 30, 40, 0, 0, 0, 7>>),
     Record(Tag("sPLT"), 1, <<112, 0, 8>>),
     Record(Tag("sRGB"), 1, <<0>>),
     Record(Tag("sRGB"), 1, <<4>>),
     Record(Tag("sRGB"), 0, <<>>),
     Record(Tag("sTER"), 1, <<1>>),
     Record(Tag("sTER"), 2, <<1, 0>>),
     Record(Tag("tEXt"), 4, <<107, 0, 104, 105>>),
     Record(Tag("tEXt"), 4, <<107, 0, 104, 200>>),
     Record(Tag("tEXt"), 0, <<107, 0, 104, 105>>),
     Record(Tag("tRNS"), 2, <<0, 127>>),
     Record(Tag("zTXt"), 5, <<107, 0, 0, 120, 1>>),
     Record(Tag("zTXt"), 5, <<200, 0, 0, 120, 1>>),
     Record(Tag("zTXt"), 1, <<107, 0, 0, 120, 1>>)}
    \cup {Record(Tag("sPLT"), Len(sPLT_payload(p)), sPLT_payload(p)) : p \in Palettes}

Tails ==
    {<<>>,
     Record(Tag("IEND"), 0, <<>>),
     Record(Tag("IEND"), 1, <<9>>),
     Record(Tag("IEND"), 0, <<>>) \o <<0, 0>>}

CutShort(bytes, cut) == SubSeq(bytes, 1, Len(bytes) - cut)

Buffers ==
    {CutShort(s \o h \o m \o t, cut) :
        s \in Signatures, h \in Heads, m \in Middles, t \in Tails, cut \in 0..MaxCut}

\* --------------------------------------------------------------- the runs
NoRead == [op |-> "none", start |-> 0, range |-> 0, st |-> "none", val |-> <<>>]

\* main, after FileLoader::load_file and Stream::new.
Loaded(file_data) ==
    [data |-> file_data, sequential_counter |-> 0, chunk_list |-> <<>>,
     signature_verified |-> FALSE]

Init ==
    /\ png_file \in {Loaded(b) : b \in Buffers}
    /\ pc = "Loaded"
    /\ chunk_length = 0
    /\ chunk_type = "None"
    /\ error = "none"
    /\ last_read = NoRead

\* main: Png::new (and PngDecoder::new, which only builds chunk_type_map).
PngNew ==
    /\ pc = "Loaded"
    /\ LET r == Png_new(png_file.data)
       IN  /\ png_file' = r.png
           /\ pc' = IF r.st = "Ok" THEN "AwaitingChunk" ELSE "Panicked"
           /\ error' = IF r.st = "Ok" THEN error ELSE r.val
    /\ UNCHANGED <<chunk_length, chunk_type, last_read>>

\* get_all_chunks: the length and tag of the next record.
AwaitingChunk ==
    /\ pc = "AwaitingChunk"
    /\ LET r == read_chunk_header(png_file)
       IN  /\ png_file' = r.png
           /\ IF r.st = "Ok"
              THEN /\ pc' = "DecodingChunk"
                   /\ chunk_length' = r.val.length
                   /\ chunk_type' = r.val.chunk_type
                   /\ error' = error
              ELSE /\ pc' = IF r.st = "Err" THEN "Failed" ELSE "Panicked"
                   /\ error' = r.val
                   /\ UNCHANGED <<chunk_length, chunk_type>>
    /\ UNCHANGED last_read

\* Mutant: a record is appended for a chunk whose decoder failed.
DecodingChunk_appends_on_error ==
    /\ pc = "DecodingChunk"
    /\ \E overflow_checks \in BOOLEAN :
        LET r == decode_chunk(chunk_type, chunk_length, png_file, overflow_checks)
        IN  IF r.st = "Ok"
            THEN /\ png_file' = add_chunk(r.png, r.val).png
                 /\ pc' = IF chunk_type = "IEND" THEN "Done" ELSE "AwaitingChunk"
                 /\ error' = error
            ELSE /\ png_file' = add_chunk(r.png, [variant |-> chunk_type,
                                                  chunk |-> [length |-> chunk_length]]).png
                 /\ pc' = IF r.st = "Err" THEN "Failed" ELSE "Panicked"
                 /\ error' = r.val
    /\ UNCHANGED <<chunk_length, chunk_type, last_read>>

\* Mutant: the loop goes on behind an end record.
DecodingChunk_no_break ==
    /\ pc = "DecodingChunk"
    /\ \E overflow_checks \in BOOLEAN :
        LET r == decode_chunk(chunk_type, chunk_length, png_file, overflow_checks)
        IN  IF r.st = "Ok"
            THEN /\ png_file' = add_chunk(r.png, r.val).png
                 /\ pc' = "AwaitingChunk"
                 /\ error' = error
            ELSE /\ png_file' = r.png
                 /\ pc' = IF r.st = "Err" THEN "Failed" ELSE "Panicked"
                 /\ error' = r.val
    /\ UNCHANGED <<chunk_length, chunk_type, last_read>>

\* get_all_chunks: the decoder of the record's type, then add_chunk; IEND
\* ends the loop.  Whether the build checks arithmetic overflow is a choice
\* of the build.
DecodingChunk ==
    /\ pc = "DecodingChunk"
    /\ \E overflow_checks \in BOOLEAN :
        LET r == decode_chunk(chunk_type, chunk_length, png_file, overflow_checks)
        IN  IF r.st = "Ok"
            THEN /\ png_file' = add_chunk(r.png, r.val).png
                 /\ pc' = IF chunk_type = "IEND" THEN "Done" ELSE "AwaitingChunk"
                 /\ error' = error
            ELSE /\ png_file' = r.png
                 /\ pc' = IF r.st = "Err" THEN "Failed" ELSE "Panicked"
                 /\ error' = r.val
    /\ UNCHANGED <<chunk_length, chunk_type, last_read>>

Next == PngNew \/ AwaitingChunk \/ DecodingChunk

Spec == Init /\ [][Next]_vars

\* ------------------------------------------------- the cursor on its own
ByteValues == {0, 7, 255}

RECURSIVE SeqsUpTo(_, _)
SeqsUpTo(S, n) ==
    IF n = 0 THEN {<<>>}
    ELSE LET shorter == SeqsUpTo(S, n - 1)
         IN  shorter \cup {Append(q, x) : q \in shorter, x \in S}

InitCursor ==
    /\ png_file \in {Loaded(b) : b \in SeqsUpTo(ByteValues, MaxBufLen)}
    /\ pc = "Cursor"
    /\ chunk_length = 0
    /\ chunk_type = "None"
    /\ error = "none"
    /\ last_read = NoRead

\* The ranges asked of a read: the small ones, and the ones within MaxRange
\* of usize::MAX.
Ranges == (0..MaxRange) \cup {UsizeMax - k : k \in 0..MaxRange}

\* Png::read_bytes(range) on the session's cursor, for any range.  A read
\* that aborts ends the run.
ReadBytes ==
    /\ pc = "Cursor"
    /\ \E range \in Ranges :
        LET r == read_bytes(png_file, range)
        IN  /\ png_file' = r.png
            /\ pc' = IF r.st = "Panic" THEN "Panicked" ELSE pc
            /\ last_read' = [op |-> "read_bytes", start |-> png_file.sequential_counter,
                             range |-> range, st |-> r.st, val |-> r.val]
    /\ UNCHANGED <<chunk_length, chunk_type, error>>

\* A call of one of Png's readers on the session's cursor: what it returned
\* and where the cursor stood before it.
Called(op, r) ==
    /\ png_file' = r.png
    /\ pc' = IF r.st = "Panic" THEN "Panicked" ELSE pc
    /\ last_read' = [op |-> op, start |-> png_file.sequential_counter, range |-> 0,
                     st |-> r.st, val |-> r.val]
    /\ UNCHANGED <<chunk_length, chunk_type, error>>

\* Png::read_null_terminated_string on the session's cursor.
ReadString ==
    /\ pc = "Cursor"
    /\ Called("read_null_terminated_string", read_null_terminated_string(png_file))

\* Png::big_endian_u32 on the session's cursor.  TLC's integers end
\* at 2^31 - 1: the call is made where the byte under the cursor is below
\* 128 (or missing), so that the value is the one the code computes.
BigEndianU32 ==
    /\ pc = "Cursor"
    /\ png_file.sequential_counter < Len(png_file.data)
           => png_file.data[png_file.sequential_counter + 1] < 128
    /\ Called("big_endian_u32", big_endian_u32(png_file))

\* Png::big_endian_u16 on the session's cursor.
BigEndianU16 ==
    /\ pc = "Cursor"
    /\ Called("big_endian_u16", big_endian_u16(png_file))

\* Png::get_u8 on the session's cursor.
GetU8 ==
    /\ pc = "Cursor"
    /\ Called("get_u8", get_u8(png_file))

NextCursor == ReadBytes \/ ReadString \/ BigEndianU32 \/ BigEndianU16 \/ GetU8

SpecCursor == InitCursor /\ [][NextCursor]_vars

\* The program runs on until get_all_chunks returns or the process aborts.
FairSpec == Spec /\ WF_vars(Next)

\* ------------------------------------------------------------- the claims
data == png_file.data
offset == png_file.sequential_counter
chunk_list == png_file.chunk_list

IsPrefix(p, q) == Len(p) <= Len(q) /\ SubSeq(q, 1, Len(p)) = p

\* The bytes data[from .. from + n), counted from 0 as the code counts them.
Slice(bytes, from, n) == [i \in 1..n |-> bytes[from + i]]

ValueBE(bytes) ==
    IF Len(bytes) = 4
    THEN bytes[1] * 16777216 + bytes[2] * 65536 + bytes[3] * 256 + bytes[4]
    ELSE bytes[1] * 256 + bytes[2]

\* C1: a read of range bytes at offset start returns data[start .. start +
\* range) and leaves the offset at start + range when that many bytes
\* remain; otherwise it returns the out-of-bounds error and leaves the
\* offset at start.
C1_ReadContract ==
    last_read.op = "read_bytes" =>
        IF last_read.range <= Len(data) - last_read.start
        THEN /\ last_read.st = "Ok"
             /\ last_read.val = Slice(data, last_read.start, last_read.range)
             /\ offset = last_read.start + last_read.range
        ELSE /\ last_read.st = "Err"
             /\ last_read.val = "Range is out of bounds"
             /\ offset = last_read.start

\* C2: the offset is within 0 .. Len(data) in every state of a decode
\* session and no step decreases it.
C2_OffsetBoundedMonotone ==
    /\ offset >= 0 /\ offset <= Len(data)
    /\ [][/\ png_file'.sequential_counter >= 0
          /\ png_file'.sequential_counter <= Len(png_file'.data)
          /\ png_file'.sequential_counter >= png_file.sequential_counter]_vars

\* A decoder has failed on an out-of-bounds read after two records were
\* decoded, with bytes left unread.
C2_Witness ==
    /\ pc = "Failed"
    /\ error = "Range is out of bounds"
    /\ Len(chunk_list) = 2
    /\ offset < Len(data)

\* The step of the loop that reads a record's length and tag, and the step
\* that decodes the record and appends it.
HeaderRead == pc = "AwaitingChunk" /\ pc' = "DecodingChunk"
Appended == pc = "DecodingChunk" /\ pc' \in {"AwaitingChunk", "Done"}

\* C3: every record that is decoded and appended moved the cursor by 4 + 4
\* for its length and tag and by its declared length + 4 for its payload and
\* checksum.
C3_CursorAlignment ==
    [][/\ HeaderRead => png_file'.sequential_counter = offset + 8
       /\ Appended => png_file'.sequential_counter = offset + chunk_length + 4]_vars

\* The buffers of C4: the signature, a header record of length 13 with valid
\* colour-type and interlace codes, an end record of length 0.
MinimalStreams ==
    {png_signature \o Record(Tag("IDHR"), 13, IHDRPayload(c, i))
                   \o Record(Tag("IEND"), 0, <<>>) :
        c \in {0, 2, 3, 4, 6}, i \in {0, 1}}

MinimalStream(bytes) == bytes \in MinimalStreams

MinimalDone ==
    /\ pc = "Done"
    /\ Len(chunk_list) = 2
    /\ chunk_list[1].variant = "IDHR"
    /\ chunk_list[1].chunk.length = 13
    /\ chunk_list[1].chunk.width = 258
    /\ chunk_list[1].chunk.height = 3
    /\ chunk_list[1].chunk.bit_depth = 8
    /\ chunk_list[1].chunk.color_type = ColorType(data[8 + 8 + 10])
    /\ chunk_list[1].chunk.interlace_method = InterlaceMethod(data[8 + 8 + 13])
    /\ chunk_list[1].chunk.CRC = Checksum
    /\ chunk_list[2] = [variant |-> "IEND", chunk |-> [length |-> 0, CRC |-> Checksum]]
    /\ offset = Len(data)

\* C4: on such a buffer the session never fails or aborts and, run to its
\* end, reaches Done with the chunk list holding the header record followed
\* by the end record.
C4_MinimalStreamDone ==
    /\ [](MinimalStream(data) => pc \in {"Loaded", "AwaitingChunk", "DecodingChunk", "Done"})
    /\ [](MinimalStream(data) /\ pc = "Done" => MinimalDone)
    /\ (MinimalStream(data) ~> MinimalDone)

C4_Witness ==
    /\ MinimalStream(data)
    /\ pc = "Done"
    /\ chunk_list[1].chunk.interlace_method = "Adam7"

\* C5: a step leaves the chunk list as it is or appends one record to it;
\* the record appended is of the type of the tag just read and carries the
\* length just read, so the list follows the order of the records in the
\* buffer.
C5_AppendOnlyLog ==
    [][\/ png_file'.chunk_list = chunk_list
       \/ /\ pc = "DecodingChunk"
          /\ Len(png_file'.chunk_list) = Len(chunk_list) + 1
          /\ IsPrefix(chunk_list, png_file'.chunk_list)
          /\ LET c == png_file'.chunk_list[Len(chunk_list) + 1]
             IN  /\ c.variant = chunk_type_map[Slice(data, offset - 4, 4)]
                 /\ c.chunk.length = ValueBE(Slice(data, offset - 8, 4))]_vars

\* A background-colour record has been appended behind the header record,
\* and a third record behind both.
C5_Witness ==
    /\ Len(chunk_list) = 3
    /\ chunk_list[1].variant = "IDHR"
    /\ chunk_list[2].variant = "bKGD"
    /\ chunk_list[3].variant = "IEND"

FixedSize ==
    [t \in {"IDHR", "tIME", "gAMA", "cHRM", "pHYs", "sTER", "sRGB", "IEND"} |->
        CASE t = "IDHR" -> 13 [] t = "tIME" -> 7 [] t = "gAMA" -> 4
          [] t = "cHRM" -> 32 [] t = "pHYs" -> 9 [] t = "sTER" -> 1
          [] t = "sRGB" -> 1 [] t = "IEND" -> 0]

\* C6: a record of a fixed-layout type or an end record whose declared
\* length is not the type's payload size is never decoded and appended.
C6_FixedLengthChecked ==
    [][(/\ pc = "DecodingChunk"
        /\ chunk_type \in DOMAIN FixedSize
        /\ chunk_length # FixedSize[chunk_type])
       => pc' = "Failed"]_vars

HasHeader == \E i \in 1..Len(chunk_list) : chunk_list[i].variant = "IDHR"

\* C7: a background-colour record met while the chunk list holds no header
\* record fails with the missing-header error, with no byte consumed and no
\* record appended.
C7_BackgroundNeedsHeader ==
    [][(pc = "DecodingChunk" /\ chunk_type = "bKGD" /\ ~HasHeader)
       => /\ pc' = "Failed"
          /\ error' = "IDHR chunk not found"
          /\ png_file' = png_file]_vars

\* The background-colour record came behind a record that is no header.
C7_Witness ==
    /\ pc = "Failed"
    /\ error = "IDHR chunk not found"
    /\ Len(chunk_list) = 1
    /\ offset > 8

\* The colour mode of the first header record of the list.
HeaderColor ==
    chunk_list[CHOOSE i \in 1..Len(chunk_list) :
                  /\ chunk_list[i].variant = "IDHR"
                  /\ \A j \in 1..(i - 1) : chunk_list[j].variant # "IDHR"].chunk.color_type

\* The payload bytes of a background-colour record under a colour mode, and
\* the colour they hold when they start at offset o.
ShapeSize(mode) ==
    IF mode \in {"Grayscale", "GrayscaleAlpha"} THEN 2
    ELSE IF mode \in {"RGB", "RGBA"} THEN 6 ELSE 1

ShapeColor(mode, o) ==
    IF mode \in {"Grayscale", "GrayscaleAlpha"}
    THEN [kind |-> "Gray", gray |-> ValueBE(Slice(data, o, 2))]
    ELSE IF mode \in {"RGB", "RGBA"}
    THEN [kind |-> "RGB", red |-> ValueBE(Slice(data, o, 2)),
          green |-> ValueBE(Slice(data, o + 2, 2)),
          blue |-> ValueBE(Slice(data, o + 4, 2))]
    ELSE [kind |-> "PaletteIndex", palette_index |-> data[o + 1]]

\* C8: with a header record in the list, the background-colour decoder reads
\* the payload its colour mode asks for (2, 6 or 1 bytes, big-endian, red
\* green blue) and then 4 checksum bytes; it fails only when those bytes do
\* not all remain.
C8_BackgroundShape ==
    [][(pc = "DecodingChunk" /\ chunk_type = "bKGD" /\ HasHeader)
       => LET n == ShapeSize(HeaderColor)
          IN  IF offset + n + 4 <= Len(data)
              THEN /\ pc' = "AwaitingChunk"
                   /\ png_file'.sequential_counter = offset + n + 4
                   /\ png_file'.chunk_list = Append(chunk_list,
                         [variant |-> "bKGD",
                          chunk |-> [length |-> chunk_length,
                                     color |-> ShapeColor(HeaderColor, offset),
                                     CRC |-> Slice(data, offset + n, 4)]])
              ELSE /\ pc' = "Failed"
                   /\ error' = "Range is out of bounds"
                   /\ png_file'.chunk_list = chunk_list]_vars

C8_Witness ==
    /\ Len(chunk_list) >= 2
    /\ chunk_list[1].variant = "IDHR"
    /\ chunk_list[1].chunk.color_type = "RGBA"
    /\ chunk_list[2].variant = "bKGD"
    /\ chunk_list[2].chunk.color = [kind |-> "RGB", red |-> 256, green |-> 512, blue |-> 768]

\* C9: when the four bytes behind a length are no registered tag, the loop
\* fails with the unknown-type error having read those eight bytes and
\* appended nothing, and a failed session takes no further step.
C9_UnknownTagFails ==
    [][/\ pc # "Failed"
       /\ (/\ pc = "AwaitingChunk"
           /\ offset + 8 <= Len(data)
           /\ Slice(data, offset + 4, 4) \notin DOMAIN chunk_type_map)
          => /\ pc' = "Failed"
             /\ error' = "Unexpected chunk type: None"
             /\ png_file'.chunk_list = chunk_list
             /\ png_file'.sequential_counter = offset + 8]_vars

\* The unknown record declared length 0 and a whole end record lies unread
\* behind it.
C9_Witness ==
    /\ pc = "Failed"
    /\ error = "Unexpected chunk type: None"
    /\ Len(chunk_list) = 1
    /\ Slice(data, offset - 8, 8) = <<0, 0, 0, 0, 97, 98, 67, 68>>
    /\ Len(data) = offset + 4 + 12

\* C10: the step that fails leaves the chunk list as it was and records the
\* error, no error was recorded before, and a failed session takes no
\* further step.
C10_FailureKeepsPrefix ==
    [][/\ pc # "Failed"
       /\ pc' = "Failed" => /\ png_file'.chunk_list = chunk_list
                            /\ error = "none"
                            /\ error' # "none"]_vars

\* The second record failed in its decoder on an enumerated value.
C10_Witness ==
    /\ pc = "Failed"
    /\ error = "Invalid value for rendering intent"
    /\ Len(chunk_list) = 1
    /\ chunk_list[1].variant = "IDHR"

\* The session as it would be had the file started with the signature: the
\* same bytes from offset 8 on, the same cursor and chunk list, the flag set.
Twin ==
    [png_file EXCEPT !.data = png_signature \o SubSeq(data, 9, Len(data)),
                     !.signature_verified = TRUE]

\* The outcome of a call on the session is the outcome r of the same call
\* on Twin: the step taken, the error, the cursor and the chunk list.
SameAsTwin(r, pc_ok) ==
    /\ pc' = (IF r.st = "Ok" THEN pc_ok ELSE IF r.st = "Err" THEN "Failed" ELSE "Panicked")
    /\ error' = (IF r.st = "Ok" THEN error ELSE r.val)
    /\ png_file'.sequential_counter = r.png.sequential_counter
    /\ png_file'.chunk_list = r.png.chunk_list

\* C11: once the session is created its signature flag is true exactly when
\* the first 8 bytes are 89 50 4E 47 0D 0A 1A 0A; a buffer of 8 bytes or
\* more always yields a session at offset 8 with an empty chunk list,
\* whatever those bytes are; and every step of the decode loop comes out as
\* it does on the same bytes behind a matching signature.
C11_SignatureFlag ==
    /\ []((pc # "Loaded" /\ Len(data) >= 8)
          => (png_file.signature_verified <=> Slice(data, 0, 8) = png_signature))
    /\ [][(pc = "Loaded" /\ Len(data) >= 8)
          => /\ pc' = "AwaitingChunk"
             /\ png_file'.sequential_counter = 8
             /\ png_file'.chunk_list = <<>>]_vars
    /\ [][pc = "AwaitingChunk"
          => SameAsTwin(read_chunk_header(Twin), "DecodingChunk")]_vars
    /\ [][pc = "DecodingChunk"
          => \E overflow_checks \in BOOLEAN :
                LET r == decode_chunk(chunk_type, chunk_length, Twin, overflow_checks)
                IN  SameAsTwin(IF r.st = "Ok" THEN add_chunk(r.png, r.val) ELSE r,
                               IF chunk_type = "IEND" THEN "Done" ELSE "AwaitingChunk")]_vars

\* A file whose signature has its third byte altered was decoded to its end
\* record.
C11_Witness ==
    /\ pc = "Done"
    /\ Len(chunk_list) = 3
    /\ data[3] = 79
    /\ ~png_file.signature_verified

\* Fewer bytes remain than the step about to be taken needs: the 8 bytes of
\* a length and a tag, or the declared length of the record and the 4 bytes
\* of its checksum.
Truncated ==
    \/ pc = "AwaitingChunk" /\ Len(data) - offset < 8
    \/ pc = "DecodingChunk" /\ Len(data) - offset - 4 < chunk_length

\* The errors a decoder raises on the value of a field it has read, which
\* can come before the read that finds the buffer short.
FieldErrors ==
    {"IDHR chunk not found", "Unknown color type", "Unknown interlace method",
     "Invalid value for rendering intent", "Invalid chunk length for PLTE",
     "Unexpected chunk type: None", "invalid utf-8 sequence"}

\* C12: a step taken where the buffer is cut short ends the session in
\* Failed, with the out-of-bounds error unless a field read before the
\* missing bytes was rejected; it neither aborts nor succeeds.
C12_TruncationFails ==
    [][Truncated => /\ pc' = "Failed"
                    /\ error' \in {"Range is out of bounds"} \cup FieldErrors]_vars

\* The record about to be decoded is of the given type, declares the length
\* of the given payload, and lies whole in the buffer, checksum included.
RecordAhead(type, payload) ==
    /\ pc = "DecodingChunk"
    /\ chunk_type = type
    /\ chunk_length = Len(payload)
    /\ Len(data) - offset >= Len(payload) + 4
    /\ Slice(data, offset, Len(payload)) = payload

\* C13: a suggested-palette record whose payload is a name, a zero, the
\* sample depth and N entries is decoded and appended with that name, that
\* depth and exactly those N entries, channel by channel and frequency by
\* frequency, in their order.
C13_PaletteRoundTrip ==
    [][\A p \in Palettes :
        RecordAhead("sPLT", sPLT_payload(p))
        => /\ pc' = "AwaitingChunk"
           /\ LET c == png_file'.chunk_list[Len(png_file'.chunk_list)]
              IN  /\ c.variant = "sPLT"
                  /\ c.chunk.palette_name = p.palette_name
                  /\ c.chunk.sample_depth = p.sample_depth
                  /\ c.chunk.entries = p.entries]_vars

\* The last field of a record of a null-terminated-prefix type.
FinalField(c) ==
    CASE c.variant = "iCCP" -> c.chunk.compression_profile
      [] c.variant = "iTXt" -> c.chunk.text
      [] c.variant = "tEXt" -> c.chunk.text
      [] c.variant = "zTXt" -> c.chunk.compressed_text

\* C14: when a record of one of these types is decoded and appended, its
\* last field holds the declared length less the payload bytes consumed
\* before it, so that the payload bytes consumed are the declared length.
C14_RemainderArithmetic ==
    [][(Appended /\ chunk_type \in {"iCCP", "iTXt", "tEXt", "zTXt"})
       => LET c == png_file'.chunk_list[Len(png_file'.chunk_list)]
              consumed == png_file'.sequential_counter - offset - 4
              before == consumed - Len(FinalField(c))
          IN  /\ Len(FinalField(c)) = chunk_length - before
              /\ consumed = chunk_length]_vars

\* The position of the first zero byte at or behind position o of the
\* buffer (positions counted from 0), -1 when there is none.
RECURSIVE ZeroFrom(_)
ZeroFrom(o) ==
    IF o < 0 \/ o >= Len(data) THEN -1
    ELSE IF data[o + 1] = 0 THEN o ELSE ZeroFrom(o + 1)

\* The position behind the strings, terminators and one-byte fields that
\* come before the last field of a record whose payload starts at o; -1 when
\* the buffer ends before that.
PrefixEnd(type, o) ==
    LET z1 == ZeroFrom(o)
        z2 == IF z1 < 0 THEN -1 ELSE ZeroFrom(z1 + 3)
        z3 == IF z2 < 0 THEN -1 ELSE ZeroFrom(z2 + 1)
    IN  IF z1 < 0 THEN -1
        ELSE IF type = "tEXt" THEN z1 + 1
        ELSE IF type = "iTXt" THEN (IF z3 < 0 THEN -1 ELSE z3 + 1)
        ELSE IF z1 + 2 <= Len(data) THEN z1 + 2 ELSE -1

\* The record about to be decoded declares fewer bytes than its prefix takes.
LengthBelowPrefix ==
    /\ pc = "DecodingChunk"
    /\ chunk_type \in {"iCCP", "iTXt", "tEXt", "zTXt", "sPLT"}
    /\ PrefixEnd(chunk_type, offset) >= 0
    /\ chunk_length < PrefixEnd(chunk_type, offset) - offset

\* C15: a record of one of these five types that declares fewer bytes than
\* its prefix takes is answered with an error value: the session goes to
\* Failed, it does not abort and the record is not appended.
C15_NoUnderflow ==
    [][LengthBelowPrefix => pc' = "Failed"]_vars

\* C16: the palette decoder rejects a declared length that is no multiple
\* of 3 with its length error, the session left as it was; otherwise, when
\* the payload and checksum are all there, it appends a record of length/3
\* entries, entry i made of the payload bytes 3i, 3i+1, 3i+2 as red, green,
\* blue, with the 4 bytes behind the payload as the checksum; when they are
\* not all there it fails out of bounds.
C16_Palette ==
    [][(pc = "DecodingChunk" /\ chunk_type = "PLTE")
       => IF chunk_length % 3 # 0
          THEN /\ pc' = "Failed"
               /\ error' = "Invalid chunk length for PLTE"
               /\ png_file' = png_file
          ELSE IF Len(data) - offset - 4 >= chunk_length
          THEN /\ pc' = "AwaitingChunk"
               /\ png_file'.sequential_counter = offset + chunk_length + 4
               /\ png_file'.chunk_list = Append(chunk_list,
                     [variant |-> "PLTE",
                      chunk |-> [length |-> chunk_length,
                                 entries |-> [i \in 1..(chunk_length \div 3) |->
                                     [red |-> data[offset + 3 * (i - 1) + 1],
                                      green |-> data[offset + 3 * (i - 1) + 2],
                                      blue |-> data[offset + 3 * (i - 1) + 3]]],
                                 CRC |-> Slice(data, offset + chunk_length, 4)]])
          ELSE /\ pc' = "Failed"
               /\ error' = "Range is out of bounds"
               /\ png_file'.chunk_list = chunk_list]_vars

\* A palette of two entries was decoded behind a header record.
C16_Witness ==
    /\ Len(chunk_list) >= 2
    /\ chunk_list[2].variant = "PLTE"
    /\ chunk_list[2].chunk.entries =
         <<[red |-> 1, green |-> 2, blue |-> 3], [red |-> 4, green |-> 5, blue |-> 6]>>

\* The suggested-palette record about to be decoded, read off the buffer:
\* the length of its name, its sample depth and the entry size that goes
\* with the depth.  Defined when the name's terminator and the depth byte
\* are in the buffer.
PaletteAhead ==
    /\ pc = "DecodingChunk"
    /\ chunk_type = "sPLT"
    /\ PrefixEnd("sPLT", offset) >= 0
    /\ chunk_length >= PrefixEnd("sPLT", offset) - offset

PaletteNameLength == ZeroFrom(offset) - offset
PaletteDepth == data[ZeroFrom(offset) + 2]
PaletteEntrySize == IF PaletteDepth = 8 THEN 6 ELSE 10

\* The declared length is no whole number of entries.
LengthNotWhole ==
    \/ pc = "DecodingChunk" /\ chunk_type = "hIST" /\ chunk_length % 2 # 0
    \/ /\ PaletteAhead
       /\ (chunk_length - PaletteNameLength - 2) % PaletteEntrySize # 0

\* C17: a histogram record of odd declared length, or a suggested-palette
\* record whose declared length less its name and two bytes is no multiple
\* of its entry size, is answered with an error: the session goes to
\* Failed and no record with a rounded-down entry count is appended.
C17_WholeEntriesOnly ==
    [][LengthNotWhole => /\ pc' = "Failed"
                         /\ png_file'.chunk_list = chunk_list]_vars

\* C18: when a suggested-palette record is decoded and appended, the payload
\* bytes consumed are the name, its terminator, the depth byte and the
\* decoded entries at the entry size the count was computed with.
C18_EntrySizeConsistent ==
    [][(PaletteAhead /\ Appended)
       => LET c == png_file'.chunk_list[Len(png_file'.chunk_list)]
              consumed == png_file'.sequential_counter - offset - 4
          IN  consumed = PaletteNameLength + 2
                         + Len(c.chunk.entries) * PaletteEntrySize]_vars

\* Every step of the loop and of a decoder moves the cursor forward unless
\* it fails.
AdvancesOrFails ==
    [][(pc = "AwaitingChunk" \/ pc = "DecodingChunk")
       => \/ png_file'.sequential_counter > offset
          \/ pc' = "Failed"]_vars

\* Every session ends: in Done, in Failed, or with the process aborted.
EveryRunEnds == (pc = "AwaitingChunk") ~> (pc \in {"Done", "Failed", "Panicked"})

\* C19: every step of a session moves the cursor forward or fails, and a
\* session created on a buffer of 8 bytes or more reaches Done or Failed.
C19_Terminates ==
    /\ AdvancesOrFails
    /\ (pc = "AwaitingChunk") ~> (pc \in {"Done", "Failed"})

EndRecords == {i \in 1..Len(chunk_list) : chunk_list[i].variant = "IEND"}

\* C20: the session is in Done exactly when the chunk list holds an end
\* record; that record is then the last of the list and the only one of
\* its type, and the cursor stands behind the 4 checksum bytes read for it;
\* a record of any other type that is appended takes the loop back to
\* AwaitingChunk; and no step is taken from Done, so no byte behind the end
\* record is read.
C20_DoneIffEnd ==
    /\ [](pc = "Done" <=> EndRecords # {})
    /\ [](pc = "Done"
          => /\ EndRecords = {Len(chunk_list)}
             /\ Slice(data, offset - 8, 4) = <<73, 69, 78, 68>>
             /\ chunk_list[Len(chunk_list)].chunk.CRC = Slice(data, offset - 4, 4))
    /\ [][(Appended /\ chunk_type # "IEND") => pc' = "AwaitingChunk"]_vars
    /\ [][pc # "Done"]_vars

\* The session is done with two bytes of the buffer left unread behind the
\* end record.
C20_Witness ==
    /\ pc = "Done"
    /\ Len(chunk_list) = 3
    /\ Len(data) - offset = 2

\* The last call on the cursor was read_null_terminated_string.
StringRead == last_read.op = "read_null_terminated_string"

\* C21 as stated: a string read from offset o with the first zero at or
\* behind o at z returns the bytes [o, z) with the count z - o and leaves
\* the cursor at z + 1; with no zero it fails out of bounds.
C21_StringReadAsStated ==
    StringRead =>
        LET o == last_read.start
            z == ZeroFrom(o)
        IN  IF z >= 0
            THEN /\ last_read.st = "Ok"
                 /\ last_read.val = [string |-> Slice(data, o, z - o), length |-> z - o]
                 /\ offset = z + 1
            ELSE /\ last_read.st = "Err"
                 /\ last_read.val = "Range is out of bounds"

\* C21, amended: the same where the bytes [o, z) are well-formed UTF-8;
\* where they are not, the read fails with the text-decoding error, the
\* cursor at z + 1 all the same.
C21_StringRead ==
    StringRead =>
        LET o == last_read.start
            z == ZeroFrom(o)
        IN  IF z < 0
            THEN /\ last_read.st = "Err"
                 /\ last_read.val = "Range is out of bounds"
            ELSE IF from_utf8_valid(Slice(data, o, z - o))
            THEN /\ last_read.st = "Ok"
                 /\ last_read.val = [string |-> Slice(data, o, z - o), length |-> z - o]
                 /\ offset = z + 1
            ELSE /\ last_read.st = "Err"
                 /\ last_read.val = "invalid utf-8 sequence"
                 /\ offset = z + 1

\* A string of two bytes was read from offset 1.
C21_Witness ==
    /\ StringRead
    /\ last_read.start = 1
    /\ last_read.st = "Ok"
    /\ last_read.val.length = 2
    /\ offset = 4

\* The codes of the enumerated fields.
ColorCodes == {0, 2, 3, 4, 6}
InterlaceCodes == {0, 1}
IntentCodes == {0, 1, 2, 3}

\* The byte at position o of the buffer (counted from 0) is there and is
\* none of the codes.
BadCode(o, codes) == o < Len(data) /\ data[o + 1] \notin codes

\* The decoder's enumeration error ended the session and nothing was
\* appended.
FailsWith(e) ==
    /\ pc' = "Failed"
    /\ error' = e
    /\ png_file'.chunk_list = chunk_list

\* C22: a header record is decoded and appended only with a colour-type
\* byte in {0, 2, 3, 4, 6} and an interlace byte in {0, 1}, a standard-rgb
\* record only with a rendering-intent byte in {0, 1, 2, 3}; any other code
\* ends the session in Failed with the enumeration's error and no record
\* appended.
C22_EnumeratedFields ==
    /\ [][(Appended /\ chunk_type = "IDHR")
          => /\ data[offset + 10] \in ColorCodes
             /\ data[offset + 13] \in InterlaceCodes]_vars
    /\ [][(Appended /\ chunk_type = "sRGB") => data[offset + 1] \in IntentCodes]_vars
    /\ [][(pc = "DecodingChunk" /\ chunk_type = "IDHR" /\ BadCode(offset + 9, ColorCodes))
          => FailsWith("Unknown color type")]_vars
    /\ [][(/\ pc = "DecodingChunk" /\ chunk_type = "IDHR"
           /\ ~BadCode(offset + 9, ColorCodes)
           /\ BadCode(offset + 12, InterlaceCodes))
          => FailsWith("Unknown interlace method")]_vars
    /\ [][(pc = "DecodingChunk" /\ chunk_type = "sRGB" /\ BadCode(offset, IntentCodes))
          => FailsWith("Invalid value for rendering intent")]_vars

\* A header record with interlace code 2 ended the session.
C22_Witness ==
    /\ pc = "Failed"
    /\ error = "Unknown interlace method"
    /\ chunk_list = <<>>
    /\ data[8 + 8 + 13] = 2

\* The last call on the cursor, a reader of width n bytes, returned the
\* big-endian value of the n bytes at its start and moved the cursor behind
\* them when n bytes remained, and failed out of bounds with the cursor
\* where it was when they did not.
FixedWidthRead(n, top) ==
    IF Len(data) - last_read.start >= n
    THEN /\ last_read.st = "Ok"
         /\ last_read.val =
                IF n = 4 THEN data[last_read.start + 1] * 16777216
                              + data[last_read.start + 2] * 65536
                              + data[last_read.start + 3] * 256
                              + data[last_read.start + 4]
                ELSE IF n = 2 THEN data[last_read.start + 1] * 256
                                   + data[last_read.start + 2]
                ELSE data[last_read.start + 1]
         /\ last_read.val >= 0
         /\ last_read.val \div top <= 255
         /\ offset = last_read.start + n
    ELSE /\ last_read.st = "Err"
         /\ last_read.val = "Range is out of bounds"
         /\ offset = last_read.start

\* C23: big_endian_u32 returns b0*2^24 + b1*2^16 + b2*2^8 + b3 of the next
\* four bytes and advances by 4, big_endian_u16 returns b0*2^8 + b1 and
\* advances by 2, get_u8 returns the next byte and advances by 1; the values
\* lie below 2^32, 2^16 and 2^8; each fails without advancing when too few
\* bytes remain.
C23_BigEndianReaders ==
    /\ last_read.op = "big_endian_u32" => FixedWidthRead(4, 16777216)
    /\ last_read.op = "big_endian_u16" => FixedWidthRead(2, 256)
    /\ last_read.op = "get_u8" => FixedWidthRead(1, 1)

\* The four bytes 07 FF 00 07 were read as one value.
C23_Witness ==
    /\ last_read.op = "big_endian_u32"
    /\ last_read.st = "Ok"
    /\ last_read.val = 7 * 16777216 + 255 * 65536 + 7

BlobTypes == {"IDAT", "dSIG", "eXIf", "sBIT", "tRNS"}

\* The record of a blob type with the given length, data and checksum.
BlobRecord(type, length, bytes, CRC) ==
    [variant |-> type,
     chunk |-> IF type = "tRNS"
               THEN [length |-> length, transparency_data |-> bytes, CRC |-> CRC]
               ELSE [length |-> length, data |-> bytes, CRC |-> CRC]]

\* C24: a record of a blob type of declared length L is decoded, when L + 4
\* bytes remain, to the L bytes behind the tag in their order (none for
\* L = 0) and the 4 bytes behind those as the checksum, the cursor L + 4
\* further; it is never decoded to anything else.
C24_OpaqueBlob ==
    /\ [][(Appended /\ chunk_type \in BlobTypes)
          => /\ png_file'.chunk_list = Append(chunk_list,
                    BlobRecord(chunk_type, chunk_length,
                               Slice(data, offset, chunk_length),
                               Slice(data, offset + chunk_length, 4)))
             /\ png_file'.sequential_counter = offset + chunk_length + 4]_vars
    /\ [][(/\ pc = "DecodingChunk"
           /\ chunk_type \in BlobTypes
           /\ Len(data) - offset - 4 >= chunk_length)
          => pc' = "AwaitingChunk"]_vars

\* An image-data record of three bytes and one of no bytes were decoded.
C24_Witness ==
    /\ Len(chunk_list) >= 2
    /\ chunk_list[2].variant = "IDAT"
    /\ chunk_list[2].chunk.data \in {<<120, 1, 99>>, <<>>}
    /\ chunk_list[2].chunk.length = Len(chunk_list[2].chunk.data)
    /\ pc = "Done"

\* C25: creating the session on a buffer of 8 bytes or more takes the
\* cursor from 0 to 8, whatever the bytes are, so the first length is the
\* four bytes at offset 8 and the offset is 8 or more in every state of
\* the loop; on a buffer of fewer than 8 bytes creation aborts: there is no
\* session and no error value.
C25_SessionCreation ==
    /\ [][pc = "Loaded"
          => /\ offset = 0
             /\ IF Len(data) >= 8
                THEN /\ pc' = "AwaitingChunk"
                     /\ png_file'.sequential_counter = 8
                ELSE /\ pc' = "Panicked"
                     /\ error' = "Failed to read bytes"
                     /\ png_file'.sequential_counter = 0]_vars
    /\ []((pc = "AwaitingChunk" \/ pc = "DecodingChunk" \/ pc = "Done" \/ pc = "Failed")
          => (offset >= 8 /\ Len(data) >= 8))
    /\ [][(HeaderRead /\ chunk_list = <<>>)
          => (offset = 8 /\ chunk_length' = ValueBE(Slice(data, 8, 4)))]_vars

\* Creation aborted on a buffer of 7 bytes.
C25_Witness ==
    /\ pc = "Panicked"
    /\ error = "Failed to read bytes"
    /\ Len(data) = 7
    /\ offset = 0

\* The identifiers the registry can return.
Identifiers == {chunk_type_map[t] : t \in DOMAIN chunk_type_map}

\* The message of the dispatch's fallback arm for an identifier.
Fallback(type) == "Unexpected chunk type: " \o type

\* Whatever the session, the dispatch on an identifier of the registry
\* goes to a decoder, not to the fallback arm (seen on an empty buffer,
\* where every decoder fails with an error of its own).
DispatchTotal ==
    \A type \in Identifiers :
        decode_chunk(type, 0, Loaded(<<>>), FALSE).val # Fallback(type)

\* C26: the registry holds 21 tags of 4 bytes with 21 different
\* identifiers; the dispatch has a decoder for each of them; no session
\* fails with the fallback's message, and the unknown-type error is raised
\* only by the lookup of a tag, before any decoder runs.
C26_RegistryDispatch ==
    /\ [](/\ Cardinality(DOMAIN chunk_type_map) = 21
          /\ Cardinality(Identifiers) = 21
          /\ \A t \in DOMAIN chunk_type_map : Len(t) = 4
          /\ DispatchTotal)
    /\ [](pc = "DecodingChunk" => chunk_type \in Identifiers)
    /\ [](error \notin {Fallback(type) : type \in Identifiers})
    /\ [][pc' = "Failed" /\ error' = "Unexpected chunk type: None"
          => /\ pc = "AwaitingChunk"
             /\ Slice(data, offset + 4, 4) \notin DOMAIN chunk_type_map]_vars

\* The lookup of the first tag of the buffer failed.
C26_Witness ==
    /\ pc = "Failed"
    /\ error = "Unexpected chunk type: None"
    /\ chunk_list = <<>>
    /\ offset = 16
    /\ Slice(data, 12, 4) = <<97, 98, 67, 68>>

====
